---- MODULE Spec2Model ----
(***************************************************************************)
(* Webhook outbox, dispatcher and sender of fiozap.                        *)
(*                                                                         *)
(* Strings that the code takes apart (the session's "events" column) are   *)
(* sequences of tokens: a token is an event name or the separator ",".     *)
(* Webhook URLs are three representative values: empty, well-formed and    *)
(* one that url.Parse rejects.  The outbox table maps the SERIAL id of a   *)
(* row to its columns.  Updates of outbox rows and reads of both stores    *)
(* are taken to succeed; the insert of a row may fail.  An HTTP call for a *)
(* row is a Sender.Send call made for it; posts counts the calls among     *)
(* them that reach client.Do, which is all of them unless the stored URL   *)
(* does not parse (SpecPosts), and bodies keeps the payloads handed to     *)
(* Send.                                                                   *)
(*                                                                         *)
(* The connection registry (SessionService) is modelled with the adapters  *)
(* it constructs.  An adapter is a record of what it reports (connected,   *)
(* loggedIn) and of whether it is up, that is, connected at least once and *)
(* not torn down; an adapter that is up emits events on its own, and may   *)
(* connect again after a drop.  Connect is two steps, before and after the *)
(* adapter's blocking connect call, with s.mu held in between; the other   *)
(* registry calls are one step each, taken when s.mu is free.  Session     *)
(* Store writes made by the registry calls are taken to succeed; the       *)
(* projection write of handleEvent may fail.  The registry is run without  *)
(* a dispatcher (SpecReg, SpecReconnect) and, for the event router, with a *)
(* dispatcher set at some point (SpecRouter).                              *)
(*                                                                         *)
(* Spec runs one dispatcher loop.  The loops that repeated Start calls     *)
(* bring up on one Dispatcher, and Stop, are run in SpecLoops; each loop   *)
(* keeps the events slice it fetched, whose elements are copies of the     *)
(* rows as they were at the fetch.  SpecPoll runs one loop over an outbox  *)
(* larger than a batch, and SpecFrame runs the outbox and the registry     *)
(* side by side.  SpecPosts delivers to a webhook of any stored URL,       *)
(* SpecBody lets two loops deliver one row of any payload, and SpecKeys    *)
(* runs the registry calls on two sessions.                                *)
(***************************************************************************)
EXTENDS Integers, Sequences, FiniteSets, TLC

\* ---------------------------------------------------------------- bounds
\* Rows ever inserted into the outbox.
MaxRows == 2
\* LIMIT of one poll (50 in dispatcher.go:151), scaled so that a batch can
\* be shorter than the set of pending rows.
batchSize == 2
\* Enqueue calls whose insert fails.
MaxEnqErr == 1
\* wameow.Client instances ever constructed.
MaxAdapters == 3
\* Tasks (request handlers, ReconnectAll goroutines) that run Connect.
MaxProcs == 2
\* processLoop goroutines started on the dispatcher
MaxLoops == 2

\* ------------------------------------------------------------- constants
\* "attempts" < 3 in GetPending.
AttemptCap == 3
\* http.StatusBadRequest
StatusBadRequest == 400

eventAll == "All"
Sep == ","
NULL == "NULL"
NoSend == [done |-> FALSE, err |-> FALSE, posts |-> 0]
NoSendIn == [marshalOK |-> TRUE, url |-> "", outcome |-> [kind |-> "none", status |-> 0]]

Users == {"u1"}
SessionIDs == {"s1"}
\* Event types of orphan rows (Enqueue) and of session rows (EnqueueSession).
EnqueueTypes == {"Connected"}
SessionTypes == {"Message", "Connected"}
Payloads == {"{}"}

UrlEmpty == ""
UrlGood == "http://x/y"
UrlBad == "http://[bad"
Urls == {UrlEmpty, UrlGood, UrlBad}

supportedEventTypes ==
  {"Message", "ReadReceipt", "HistorySync", "ChatPresence", "Presence",
   "Connected", "Disconnected", "QR", "LoggedOut", "GroupInfo",
   "JoinedGroup", "CallOffer", "All"}

\* Event lists a client may put in a webhook request.
ReqEvents == {<<>>, <<"All">>, <<"QR", "Message">>, <<"Bogus">>}
\* Webhook URLs a client may put in a webhook request.
ReqUrls == {UrlEmpty, UrlGood}

\* What http.Client.Do can come back with: a transport error or the status
\* of the final response.
Transport(e) == [kind |-> e, status |-> 0]
Response(code) == [kind |-> "response", status |-> code]
TransportErrs == {Transport("neterr"), Transport("timeout")}
StatusCodes == {200, 201, 204, 299, 300, 304, 399, 400, 401, 404, 410, 499, 500, 503}
DoOutcomes == TransportErrs \cup {Response(c) : c \in StatusCodes}
\* How the endpoint of a session answers the dispatcher.
EndpointOutcomes == TransportErrs \cup {Response(c) : c \in {200, 304, 404, 500}}
\* A row not marked sent, and one marked sent without a delivery.
NotSent == [kind |-> "none", status |-> 0]
ViaFilter == [kind |-> "filter", status |-> 0]
\* Outcomes of the INSERT of Create.
CreateOutcomes == {"ok", "marshalErr", "execErr"}

\* Sessions of the connection registry runs; all belong to the one user.
RegSessionIDs == {"s1", "s2"}
Procs == 1..MaxProcs
Loops == 1..MaxLoops
\* The protocol identity an authenticated adapter reports.
Jid == "123@s"
\* The data an adapter passes with an event: a map holding the jid, nil,
\* or some other value.
JidData == "{jid}"
NilData == "nil"
OtherData == "{}"
\* Event types the adapters pass to the callback.
RouterTypes == {"Connected", "Disconnected", "LoggedOut", "Message"}
\* No call made yet.
NoCall == [op |-> "", sid |-> "", arg |-> "", err |-> "", val |-> 0]
\* A task that runs no call.
Idle == [pc |-> "idle", kind |-> "", user |-> "", sid |-> "", ad |-> 0]

VARIABLES
  rows,        \* fzWebhook: id -> row
  nextId,      \* the SERIAL sequence of fzWebhook.id
  sessions,    \* fzSession: id -> [webhook, events]; a deleted session has no entry
  dpc,         \* dispatcher: "stopped", "idle" (waiting for the ticker), "batch"
  batch,       \* rows fetched by the current processPending, not yet processed
  deliveries,  \* id -> number of Sender.Send calls made for the row
  posts,       \* id -> number of POSTs (client.Do calls) made for the row
  bodies,      \* id -> the payloads handed to Sender.Send for the row, in order
  sentVia,     \* id -> how the row was marked sent: "filter", or the response status
  enqCalls,    \* Enqueue / EnqueueSession calls made
  enqErrs,     \* ... of which returned an error
  sendIn,      \* arguments of a Sender.Send call considered on its own
  sendOut,     \* ... and what the call did
  clients,     \* SessionService.clients: key -> index of the adapter in "adapters"
  adapters,    \* the wameow.Client instances made so far, in order of construction
  mu,          \* SessionService.mu: 0 when free, else the task holding it
  procs,       \* the tasks that run Connect: task -> position in the call
  connected,   \* fzSession.connected: session id -> 0 or 1
  jid,         \* fzSession.jid: session id -> protocol identity
  dispatcher,  \* SessionService.dispatcher is not nil
  reconnected, \* ReconnectAll has been called
  last,        \* the last registry or router call: what it was and what it returned
  loops,       \* the processLoop goroutines of one Dispatcher: loop -> position
               \* ("off", "select", "batch", "exited"), the events slice of its
               \* processPending, the index of the next event, and how many
               \* events it had not yet processed when stopCh was closed
  stopCh,      \* Dispatcher.stopCh: "open" or "closed"
  stopRet,     \* Stop has returned
  wg           \* Dispatcher.wg: the counter of the WaitGroup

outboxVars == <<rows, nextId, sessions, dpc, batch, deliveries, posts, bodies, sentVia, enqCalls, enqErrs,
                sendIn, sendOut>>
regVars == <<clients, adapters, mu, procs, connected, jid, dispatcher, reconnected, last>>
loopVars == <<loops, stopCh, stopRet, wg>>

vars == <<rows, nextId, sessions, dpc, batch, deliveries, posts, bodies, sentVia, enqCalls, enqErrs,
          sendIn, sendOut,
          clients, adapters, mu, procs, connected, jid, dispatcher, reconnected, last,
          loops, stopCh, stopRet, wg>>

\* ------------------------------------------------------- string helpers
RECURSIVE Split(_, _)
Split(s, sep) ==
  IF \A i \in 1..Len(s) : s[i] # sep
    THEN <<s>>
    ELSE LET k == CHOOSE i \in 1..Len(s) :
                    s[i] = sep /\ \A j \in 1..(i - 1) : s[j] # sep
         IN  <<SubSeq(s, 1, k - 1)>> \o Split(SubSeq(s, k + 1, Len(s)), sep)

RECURSIVE Join(_, _)
Join(elems, sep) ==
  IF elems = <<>> THEN <<>>
  ELSE IF Len(elems) = 1 THEN <<elems[1]>>
  ELSE <<elems[1], sep>> \o Join(Tail(elems), sep)

RECURSIVE FilterValid(_)
isValidEvent(event) == event \in supportedEventTypes

FilterValid(evs) ==
  IF evs = <<>> THEN <<>>
  ELSE (IF isValidEvent(Head(evs)) THEN <<Head(evs)>> ELSE <<>>) \o FilterValid(Tail(evs))

\* ----------------------------------------------------------- repository
\* Create with an ON CONFLICT DO NOTHING on the event's content.
CreateDedup(rs, id, userID, sessionID, eventType, payload, createdAt, outcome) ==
  IF outcome = "marshalErr" THEN [rows |-> rs, err |-> TRUE]
  ELSE IF outcome = "execErr" THEN [rows |-> rs, err |-> TRUE]
  ELSE IF \E i \in DOMAIN rs : /\ rs[i].userId = userID /\ rs[i].sessionId = sessionID
                               /\ rs[i].eventType = eventType /\ rs[i].payload = payload
    THEN [rows |-> rs, err |-> FALSE]
  ELSE [rows |-> [i \in (DOMAIN rs) \cup {id} |->
                   IF i = id
                     THEN [userId |-> userID, sessionId |-> sessionID,
                           eventType |-> eventType, payload |-> payload,
                           status |-> "pending", attempts |-> 0,
                           lastAttempt |-> NULL, createdAt |-> createdAt]
                     ELSE rs[i]],
        err |-> FALSE]

\* Create that also puts the owner's earlier rows back in the queue.
CreateRequeue(rs, id, userID, sessionID, eventType, payload, createdAt, outcome) ==
  IF outcome = "marshalErr" THEN [rows |-> rs, err |-> TRUE]
  ELSE IF outcome = "execErr" THEN [rows |-> rs, err |-> TRUE]
  ELSE [rows |-> [i \in (DOMAIN rs) \cup {id} |->
                   IF i = id
                     THEN [userId |-> userID, sessionId |-> sessionID,
                           eventType |-> eventType, payload |-> payload,
                           status |-> "pending", attempts |-> 0,
                           lastAttempt |-> NULL, createdAt |-> createdAt]
                   ELSE IF rs[i].userId = userID
                     THEN [rs[i] EXCEPT !.status = "pending", !.attempts = 0]
                     ELSE rs[i]],
        err |-> FALSE]

Create(rs, id, userID, sessionID, eventType, payload, createdAt, outcome) ==
  IF outcome = "marshalErr" THEN [rows |-> rs, err |-> TRUE]
  ELSE IF outcome = "execErr" THEN [rows |-> rs, err |-> TRUE]
  ELSE [rows |-> [i \in (DOMAIN rs) \cup {id} |->
                   IF i = id
                     THEN [userId |-> userID, sessionId |-> sessionID,
                           eventType |-> eventType, payload |-> payload,
                           status |-> "pending", attempts |-> 0,
                           lastAttempt |-> NULL, createdAt |-> createdAt]
                     ELSE rs[i]],
        err |-> FALSE]

Pending(rs) == {i \in DOMAIN rs : rs[i].status = "pending" /\ rs[i].attempts < 3}

Min(a, b) == IF a < b THEN a ELSE b

\* The first `limit` rows of cand in ascending createdAt order; rows with
\* equal createdAt come in any order.
OldestFirst(rs, cand, limit) ==
  LET n == Min(limit, Cardinality(cand))
  IN  {s \in [1..n -> cand] :
         /\ \A i, j \in 1..n : i < j => s[i] # s[j] /\ rs[s[i]].createdAt <= rs[s[j]].createdAt
         /\ \A c \in cand : (\A i \in 1..n : s[i] # c) =>
                              \A i \in 1..n : rs[s[i]].createdAt <= rs[c].createdAt}

\* GetPending without its WHERE clause.
GetPendingNoWhere(rs, limit) == OldestFirst(rs, DOMAIN rs, limit)

\* GetPending without the test of "status".
GetPendingAnyStatus(rs, limit) ==
  OldestFirst(rs, {i \in DOMAIN rs : rs[i].attempts < 3}, limit)

\* GetPending that leaves out the rows a loop has fetched and not yet
\* processed.
GetPendingUnclaimed(rs, limit) ==
  OldestFirst(rs, {id \in Pending(rs) :
                     \A p \in Loops : \A k \in loops[p].i..Len(loops[p].events) :
                       loops[p].events[k].id # id}, limit)

\* GetPending without its ORDER BY.
GetPendingUnordered(rs, limit) ==
  LET n == Min(limit, Cardinality(Pending(rs)))
  IN  {s \in [1..n -> Pending(rs)] : \A i, j \in 1..n : i < j => s[i] # s[j]}

\* The results the SELECT may return.
GetPending(rs, limit) == OldestFirst(rs, Pending(rs), limit)

\* MarkSent that counts the cycle as an attempt.
MarkSentCounting(rs, id) ==
  IF id \in DOMAIN rs
    THEN [rs EXCEPT ![id].status = "sent", ![id].lastAttempt = "NOW",
                    ![id].attempts = rs[id].attempts + 1]
    ELSE rs

MarkSent(rs, id) ==
  IF id \in DOMAIN rs
    THEN [rs EXCEPT ![id].status = "sent", ![id].lastAttempt = "NOW"]
    ELSE rs

\* MarkFailed whose CASE tests the cap against the attempts before the increment.
MarkFailedLate(rs, id) ==
  IF id \in DOMAIN rs
    THEN [rs EXCEPT ![id].attempts = rs[id].attempts + 1,
                    ![id].lastAttempt = "NOW",
                    ![id].status = IF rs[id].attempts >= 3 THEN "failed" ELSE "pending"]
    ELSE rs

\* MarkFailed that fails the row at once.
MarkFailedAtOnce(rs, id) ==
  IF id \in DOMAIN rs
    THEN [rs EXCEPT ![id].attempts = rs[id].attempts + 1,
                    ![id].lastAttempt = "NOW",
                    ![id].status = "failed"]
    ELSE rs

\* MarkFailed that does not count the attempt.
MarkFailedNoCount(rs, id) ==
  IF id \in DOMAIN rs
    THEN [rs EXCEPT ![id].lastAttempt = "NOW", ![id].status = "pending"]
    ELSE rs

MarkFailed(rs, id) ==
  IF id \in DOMAIN rs
    THEN [rs EXCEPT ![id].attempts = rs[id].attempts + 1,
                    ![id].lastAttempt = "NOW",
                    ![id].status = IF rs[id].attempts >= 2 THEN "failed" ELSE "pending"]
    ELSE rs

UpdateWebhook(ss, id, webhook, events) ==
  IF id \in DOMAIN ss
    THEN [ss EXCEPT ![id] = [webhook |-> webhook, events |-> events]]
    ELSE ss

\* --------------------------------------------------------------- sender
UrlParses(url) == url # UrlBad

\* Send that takes only a server error for a failure.
SendServerErrorsOnly(marshalOK, url, outcome) ==
  IF ~marshalOK THEN [err |-> TRUE, posts |-> 0, resp |-> Transport("marshalErr")]
  ELSE IF ~UrlParses(url) THEN [err |-> TRUE, posts |-> 0, resp |-> Transport("requestErr")]
  ELSE IF outcome.kind # "response" THEN [err |-> TRUE, posts |-> 1, resp |-> outcome]
  ELSE IF outcome.status >= 500 THEN [err |-> TRUE, posts |-> 1, resp |-> outcome]
  ELSE [err |-> FALSE, posts |-> 1, resp |-> outcome]

\* Sender.Send: [err, posts] where posts counts the client.Do calls made.
Send(marshalOK, url, outcome) ==
  IF ~marshalOK THEN [err |-> TRUE, posts |-> 0, resp |-> Transport("marshalErr")]
  ELSE IF ~UrlParses(url) THEN [err |-> TRUE, posts |-> 0, resp |-> Transport("requestErr")]
  ELSE IF outcome.kind # "response" THEN [err |-> TRUE, posts |-> 1, resp |-> outcome]
  ELSE IF outcome.status >= StatusBadRequest THEN [err |-> TRUE, posts |-> 1, resp |-> outcome]
  ELSE [err |-> FALSE, posts |-> 1, resp |-> outcome]

\* ----------------------------------------------------------- dispatcher
\* shouldSendEvent without the wildcard.
shouldSendEventNoWildcard(subscribedEvents, eventType) ==
  IF subscribedEvents = <<>> THEN FALSE
  ELSE LET events == Split(subscribedEvents, Sep)
       IN  \E i \in 1..Len(events) : events[i] = <<eventType>>

\* shouldSendEvent that lets every event type through.
shouldSendEventAlways(subscribedEvents, eventType) == TRUE

shouldSendEvent(subscribedEvents, eventType) ==
  IF subscribedEvents = <<>> THEN FALSE
  ELSE LET events == Split(subscribedEvents, Sep)
       IN  \E i \in 1..Len(events) : events[i] = <<eventAll>> \/ events[i] = <<eventType>>

\* NewSessionService: no handle, the lock free, no task in a call.
\* NewDispatcher: no loop started, stopCh made, wg at zero.
NoLoop == [pc |-> "off", events |-> <<>>, i |-> 1, stopAt |-> 0]

LoopsOff ==
  /\ loops = [p \in Loops |-> NoLoop]
  /\ stopCh = "open"
  /\ stopRet = FALSE
  /\ wg = 0

RegistryEmpty ==
  /\ clients = <<>>
  /\ adapters = <<>>
  /\ mu = 0
  /\ procs = [p \in Procs |-> Idle]
  /\ reconnected = FALSE
  /\ last = NoCall

Init ==
  /\ rows = <<>>
  /\ nextId = 1
  /\ sessions = [s \in SessionIDs |-> [webhook |-> UrlEmpty, events |-> <<>>]]
  /\ dpc = "stopped"
  /\ batch = <<>>
  /\ deliveries = <<>>
  /\ posts = <<>>
  /\ bodies = <<>>
  /\ sentVia = <<>>
  /\ enqCalls = 0
  /\ enqErrs = 0
  /\ sendIn = NoSendIn
  /\ sendOut = NoSend
  /\ RegistryEmpty
  /\ LoopsOff
  /\ connected = [s \in SessionIDs |-> 0]
  /\ jid = [s \in SessionIDs |-> ""]
  /\ dispatcher = TRUE

\* NOW() of the next insert: the clock has not moved since the last insert,
\* or it has.
LastCreated == IF DOMAIN rows = {} THEN 0
               ELSE CHOOSE t \in {rows[i].createdAt : i \in DOMAIN rows} :
                      \A i \in DOMAIN rows : rows[i].createdAt <= t

\* What an Enqueue / EnqueueSession call does to the outbox.
InsertRow(userID, sessionID, eventType, payload) ==
  \E outcome \in CreateOutcomes, dt \in {0, 1} :
    LET r == Create(rows, nextId, userID, sessionID, eventType, payload,
                    LastCreated + dt, outcome)
    IN  /\ IF r.err THEN enqErrs < MaxEnqErr /\ dt = 0 ELSE nextId <= MaxRows
        /\ rows' = r.rows
        /\ nextId' = IF r.err THEN nextId ELSE nextId + 1
        /\ deliveries' = [i \in DOMAIN r.rows |-> IF i \in DOMAIN rows THEN deliveries[i] ELSE 0]
        /\ posts' = [i \in DOMAIN r.rows |-> IF i \in DOMAIN rows THEN posts[i] ELSE 0]
        /\ bodies' = [i \in DOMAIN r.rows |-> IF i \in DOMAIN rows THEN bodies[i] ELSE <<>>]
        /\ sentVia' = [i \in DOMAIN r.rows |-> IF i \in DOMAIN rows THEN sentVia[i] ELSE NotSent]
        /\ enqCalls' = enqCalls + 1
        /\ enqErrs' = IF r.err THEN enqErrs + 1 ELSE enqErrs

Insert(userID, sessionID, eventType, payload) ==
  /\ InsertRow(userID, sessionID, eventType, payload)
  /\ UNCHANGED <<sessions, dpc, batch, sendIn, sendOut>>
  /\ UNCHANGED <<regVars, loopVars>>

Enqueue ==
  \E u \in Users, t \in EnqueueTypes, p \in Payloads : Insert(u, "", t, p)

EnqueueSession ==
  \E u \in Users, sid \in SessionIDs, t \in SessionTypes, p \in Payloads :
    Insert(u, sid, t, p)

Start ==
  /\ dpc = "stopped"
  /\ dpc' = "idle"
  /\ UNCHANGED <<rows, nextId, sessions, batch, deliveries, posts, bodies, sentVia, enqCalls, enqErrs,
                 sendIn, sendOut>>
  /\ UNCHANGED <<regVars, loopVars>>

\* One tick of processLoop: processPending fetches the batch.
processPending ==
  /\ dpc = "idle"
  /\ \E b \in GetPending(rows, batchSize) :
       /\ batch' = b
       /\ dpc' = IF b = <<>> THEN "idle" ELSE "batch"
  /\ UNCHANGED <<rows, nextId, sessions, deliveries, posts, bodies, sentVia, enqCalls, enqErrs,
                 sendIn, sendOut>>
  /\ UNCHANGED <<regVars, loopVars>>

\* time.Time.Unix(): the whole seconds of a createdAt, which the store keeps
\* in ticks of half a second.
Unix(t) == t \div 2

\* json.Unmarshal into an interface{}: the value of the document, nil
\* (JSON null) for the document null and for bytes that are no document.
Unmarshal(bytes) ==
  IF bytes = "{}" THEN [kind |-> "object", keys |-> {}]
  ELSE IF bytes = "{\"a\":1}" THEN [kind |-> "object", keys |-> {"a"}]
  ELSE [kind |-> "null", keys |-> {}]

\* The payload of sendWebhook stamped with the attempt it is sent in.
WebhookPayloadOfAttempt(event) ==
  [event |-> event.eventType,
   timestamp |-> Unix(event.createdAt) + event.attempts,
   data |-> Unmarshal(event.payload)]

\* The WebhookPayload that sendWebhook builds from the row.
NewWebhookPayload(event) ==
  [event |-> event.eventType,
   timestamp |-> Unix(event.createdAt),
   data |-> Unmarshal(event.payload)]

\* sendWebhook: the outcome of the delivery decides the mark.
sendWebhook(id, url, outcome) ==
  LET res == Send(TRUE, url, outcome)
  IN  /\ deliveries' = [deliveries EXCEPT ![id] = @ + 1]
      /\ posts' = [posts EXCEPT ![id] = @ + res.posts]
      /\ bodies' = [bodies EXCEPT ![id] = Append(@, NewWebhookPayload(rows[id]))]
      /\ IF res.err
           THEN rows' = MarkFailed(rows, id) /\ UNCHANGED sentVia
           ELSE rows' = MarkSent(rows, id) /\ sentVia' = [sentVia EXCEPT ![id] = res.resp]

\* processEvent for the row id that a loop took from its batch.
processRow(id) ==
  LET event == rows[id]
      session == sessions[event.sessionId]
  IN  IF event.sessionId = ""
        THEN rows' = MarkFailed(rows, id) /\ UNCHANGED <<deliveries, posts, bodies, sentVia>>
      ELSE IF event.sessionId \notin DOMAIN sessions
        THEN rows' = MarkFailed(rows, id) /\ UNCHANGED <<deliveries, posts, bodies, sentVia>>
      ELSE IF session.webhook = ""
        THEN rows' = MarkFailed(rows, id) /\ UNCHANGED <<deliveries, posts, bodies, sentVia>>
      ELSE IF ~shouldSendEvent(session.events, event.eventType)
        THEN /\ rows' = MarkSent(rows, id)
             /\ sentVia' = [sentVia EXCEPT ![id] = ViaFilter]
             /\ UNCHANGED <<deliveries, posts, bodies>>
      ELSE \E outcome \in EndpointOutcomes : sendWebhook(id, session.webhook, outcome)

\* processEvent for the next row of the batch.
processEvent ==
  /\ dpc = "batch"
  /\ processRow(Head(batch))
  /\ batch' = Tail(batch)
  /\ dpc' = IF Tail(batch) = <<>> THEN "idle" ELSE "batch"
  /\ UNCHANGED <<nextId, sessions, enqCalls, enqErrs, sendIn, sendOut>>
  /\ UNCHANGED <<regVars, loopVars>>

\* ------------------------------------------------- session configuration
SessionLive(s) == s \in DOMAIN sessions

WebhookSet ==
  \E s \in SessionIDs, url \in ReqUrls, evs \in ReqEvents :
    /\ SessionLive(s)
    /\ sessions' = UpdateWebhook(sessions, s, url, Join(FilterValid(evs), Sep))
    /\ UNCHANGED <<rows, nextId, dpc, batch, deliveries, posts, bodies, sentVia, enqCalls, enqErrs,
                   sendIn, sendOut>>
    /\ UNCHANGED <<regVars, loopVars>>

WebhookUpdate ==
  \E s \in SessionIDs, url \in ReqUrls, evs \in ReqEvents, active \in BOOLEAN :
    /\ SessionLive(s)
    /\ sessions' = IF active
                     THEN UpdateWebhook(sessions, s, url, Join(FilterValid(evs), Sep))
                     ELSE UpdateWebhook(sessions, s, "", <<>>)
    /\ UNCHANGED <<rows, nextId, dpc, batch, deliveries, posts, bodies, sentVia, enqCalls, enqErrs,
                   sendIn, sendOut>>
    /\ UNCHANGED <<regVars, loopVars>>

WebhookDelete ==
  \E s \in SessionIDs :
    /\ SessionLive(s)
    /\ sessions' = UpdateWebhook(sessions, s, "", <<>>)
    /\ UNCHANGED <<rows, nextId, dpc, batch, deliveries, posts, bodies, sentVia, enqCalls, enqErrs,
                   sendIn, sendOut>>
    /\ UNCHANGED <<regVars, loopVars>>

\* s.mu.Lock() that does not wait for the holder.
TryLockUnguarded(m) == TRUE

\* s.mu.Lock() goes through when no task holds s.mu.
TryLock(m) == m = 0

\* s.mu.RLock() goes through when no task holds s.mu for writing.
TryRLock(m) == m = 0

\* The registry key of a session, "userId:sessionId".
clientKey(userID, sessionID) == <<userID, sessionID>>

\* The user a session belongs to.
UserOf(s) == CHOOSE u \in Users : TRUE

\* delete(s.clients, key) made only for a handle that reports connected.
RemoveConnected(cl, key) ==
  IF adapters[cl[key]].connected THEN [k \in (DOMAIN cl) \ {key} |-> cl[k]] ELSE cl

\* delete(s.clients, key)
Remove(cl, key) == [k \in (DOMAIN cl) \ {key} |-> cl[k]]

\* wameow.Client.Disconnect: the adapter is torn down and emits nothing more.
Close(ads, a) ==
  [ads EXCEPT ![a] = [@ EXCEPT !.connected = FALSE, !.loggedIn = FALSE, !.live = FALSE]]

\* DELETE FROM "fzSession" WHERE "id" = s, for one column.
DropSession(col, s) == [t \in (DOMAIN col) \ {s} |-> col[t]]

DeleteSession ==
  \E s \in DOMAIN sessions :
    LET key == clientKey(UserOf(s), s)
    IN  /\ TryLock(mu)
        /\ IF key \in DOMAIN clients
             THEN /\ adapters' = Close(adapters, clients[key])
                  /\ clients' = Remove(clients, key)
             ELSE UNCHANGED <<adapters, clients>>
        /\ sessions' = DropSession(sessions, s)
        /\ connected' = DropSession(connected, s)
        /\ jid' = DropSession(jid, s)
        /\ last' = [op |-> "DeleteSession", sid |-> s, arg |-> "", err |-> "", val |-> 0]
        /\ UNCHANGED <<rows, nextId, dpc, batch, deliveries, posts, bodies, sentVia, enqCalls, enqErrs,
                       sendIn, sendOut>>
        /\ UNCHANGED <<mu, procs, dispatcher, reconnected>>
        /\ UNCHANGED loopVars

Next ==
  \/ Enqueue
  \/ EnqueueSession
  \/ Start
  \/ processPending
  \/ processEvent
  \/ WebhookSet
  \/ WebhookUpdate
  \/ WebhookDelete
  \/ DeleteSession

Spec == Init /\ [][Next]_vars

\* The dispatcher loop, once started, keeps running: its ticker fires and a
\* fetched batch is worked through.
SpecLive ==
  /\ Init /\ [][Next]_vars
  /\ WF_vars(Start) /\ WF_vars(processPending) /\ WF_vars(processEvent)

\* ------------------------------------------- Sender.Send taken on its own
SendInputs == [marshalOK : BOOLEAN, url : Urls, outcome : DoOutcomes]

InitSend ==
  /\ rows = <<>>
  /\ nextId = 1
  /\ sessions = [s \in SessionIDs |-> [webhook |-> UrlEmpty, events |-> <<>>]]
  /\ dpc = "stopped"
  /\ batch = <<>>
  /\ deliveries = <<>>
  /\ posts = <<>>
  /\ bodies = <<>>
  /\ sentVia = <<>>
  /\ enqCalls = 0
  /\ enqErrs = 0
  /\ sendIn \in SendInputs
  /\ sendOut = NoSend
  /\ RegistryEmpty
  /\ LoopsOff
  /\ connected = [s \in SessionIDs |-> 0]
  /\ jid = [s \in SessionIDs |-> ""]
  /\ dispatcher = TRUE

DoSend ==
  /\ ~sendOut.done
  /\ LET res == Send(sendIn.marshalOK, sendIn.url, sendIn.outcome)
     IN  sendOut' = [done |-> TRUE, err |-> res.err, posts |-> res.posts]
  /\ UNCHANGED <<rows, nextId, sessions, dpc, batch, deliveries, posts, bodies, sentVia, enqCalls, enqErrs,
                 sendIn>>
  /\ UNCHANGED <<regVars, loopVars>>

NextSend == DoSend

SpecSend == InitSend /\ [][NextSend]_vars

\* ================================================== connection registry
\* UpdateConnected whose UPDATE has no WHERE clause.
UpdateConnectedEvery(col, id, v) == [s \in DOMAIN col |-> v]

\* Session Store writes of one column; an UPDATE of a deleted session
\* touches no row.
UpdateConnected(col, id, v) == IF id \in DOMAIN col THEN [col EXCEPT ![id] = v] ELSE col

UpdateJID(col, id, v) == IF id \in DOMAIN col THEN [col EXCEPT ![id] = v] ELSE col

\* SELECT ... WHERE "connected" = 1
GetConnectedSessions(col) == {s \in DOMAIN col : col[s] = 1}

\* s.clients[key] = client left out.
StoreNothing(cl, key, a) == cl

\* s.clients[key] = client
Store(cl, key, a) == [k \in (DOMAIN cl) \cup {key} |-> IF k = key THEN a ELSE cl[k]]

\* wameow.NewClient with the callbacks set: not yet connected.
NewClient(key) == [key |-> key, connected |-> FALSE, loggedIn |-> FALSE, live |-> FALSE]

\* The check at the head of Connect, always passed.
alreadyConnectedNever(cl, ads, key) == FALSE

\* The check at the head of Connect: a handle is stored for the key and its
\* adapter reports connected.
alreadyConnected(cl, ads, key) == key \in DOMAIN cl /\ ads[cl[key]].connected

\* Disconnect without the IsConnected check.
DisconnectAnyHandle(cl, ads, key) ==
  IF key \notin DOMAIN cl
    THEN [err |-> "no session", clients |-> cl, adapters |-> ads, write |-> FALSE]
  ELSE [err |-> "", clients |-> Remove(cl, key), adapters |-> Close(ads, cl[key]),
        write |-> TRUE]

\* SessionService.Disconnect as a function of the registry: the error it
\* returns, the registry after it, and whether it writes connected = 0.
Disconnect(cl, ads, key) ==
  IF key \notin DOMAIN cl
    THEN [err |-> "no session", clients |-> cl, adapters |-> ads, write |-> FALSE]
  ELSE IF ~ads[cl[key]].connected
    THEN [err |-> "not connected", clients |-> cl, adapters |-> ads, write |-> FALSE]
  ELSE [err |-> "", clients |-> Remove(cl, key), adapters |-> Close(ads, cl[key]),
        write |-> TRUE]

\* Logout that removes the handle and writes the store before the adapter's
\* logout call.
LogoutRemovesFirst(cl, ads, key, logoutOK) ==
  IF key \notin DOMAIN cl
    THEN [err |-> "no session", clients |-> cl, adapters |-> ads, write |-> FALSE]
  ELSE IF ~ads[cl[key]].connected \/ ~ads[cl[key]].loggedIn
    THEN [err |-> "not connected or not logged in", clients |-> cl, adapters |-> ads,
          write |-> FALSE]
  ELSE [err |-> IF logoutOK THEN "" ELSE "failed to logout",
        clients |-> Remove(cl, key), adapters |-> Close(ads, cl[key]), write |-> TRUE]

\* SessionService.Logout as a function of the registry and of the outcome
\* of the adapter's logout call.  A successful logout call closes the
\* adapter's connection.
Logout(cl, ads, key, logoutOK) ==
  IF key \notin DOMAIN cl
    THEN [err |-> "no session", clients |-> cl, adapters |-> ads, write |-> FALSE]
  ELSE IF ~ads[cl[key]].connected \/ ~ads[cl[key]].loggedIn
    THEN [err |-> "not connected or not logged in", clients |-> cl, adapters |-> ads,
          write |-> FALSE]
  ELSE IF ~logoutOK
    THEN [err |-> "failed to logout", clients |-> cl, adapters |-> ads, write |-> FALSE]
  ELSE [err |-> "", clients |-> Remove(cl, key), adapters |-> Close(ads, cl[key]),
        write |-> TRUE]

\* GetClient that finds no handle.
GetClientConnected(cl, key) == 0

\* GetClient: the stored handle, 0 for nil.
GetClient(cl, key) == IF key \in DOMAIN cl THEN cl[key] ELSE 0

\* GetWhatsmeowClient: the protocol client of the stored handle, 0 for nil.
GetWhatsmeowClient(cl, key) == IF key \in DOMAIN cl THEN cl[key] ELSE 0

\* MessageService.SendText up to the adapter call: the error returned
\* before it, and the number of adapter calls made.
SendText(cl, key, sendOK) ==
  IF GetWhatsmeowClient(cl, key) = 0
    THEN [err |-> "no session", calls |-> 0]
  ELSE [err |-> IF sendOK THEN "" ELSE "failed to send message", calls |-> 1]

\* The data an adapter passes with an event of the type.
DataOf(eventType) ==
  IF eventType = "Connected" THEN JidData
  ELSE IF eventType = "Disconnected" THEN NilData
  ELSE OtherData

\* dataMap["jid"].(string) of handleEvent: NULL when an assertion fails.
JidOf(data) == IF data = JidData THEN Jid ELSE NULL

\* The process has started over a Session Store left by an earlier run,
\* which holds the sessions ids; the registry is empty and no dispatcher is
\* set.
StartOver(ids) ==
  /\ rows = <<>>
  /\ nextId = 1
  /\ sessions = [s \in ids |-> [webhook |-> UrlEmpty, events |-> <<>>]]
  /\ dpc = "stopped"
  /\ batch = <<>>
  /\ deliveries = <<>>
  /\ posts = <<>>
  /\ bodies = <<>>
  /\ sentVia = <<>>
  /\ enqCalls = 0
  /\ enqErrs = 0
  /\ sendIn = NoSendIn
  /\ sendOut = NoSend
  /\ RegistryEmpty
  /\ LoopsOff
  /\ connected \in [ids -> {0, 1}]
  /\ jid \in [ids -> {"", Jid}]
  /\ dispatcher = FALSE

InitReg == StartOver(SessionIDs)

\* handleEvent that never inserts a row.
handleEventNoInsert(userID, sessionID, eventType, data) ==
  \E projOK \in BOOLEAN :
    LET setsJid == eventType = "Connected" /\ JidOf(data) # NULL
        clears == eventType = "Disconnected" \/ eventType = "LoggedOut"
    IN  /\ (~setsJid /\ ~clears) => projOK
        /\ UNCHANGED <<rows, nextId, deliveries, posts, bodies, sentVia, enqCalls, enqErrs>>
        /\ jid' = IF setsJid /\ projOK THEN UpdateJID(jid, sessionID, JidOf(data)) ELSE jid
        /\ connected' = IF clears /\ projOK THEN UpdateConnected(connected, sessionID, 0)
                        ELSE connected
        /\ last' = [op |-> "handleEvent", sid |-> sessionID, arg |-> eventType,
                    err |-> "", val |-> IF projOK THEN 0 ELSE 1]

\* handleEvent that returns when the insert fails.
handleEventStopsOnError(userID, sessionID, eventType, data) ==
  \E projOK \in BOOLEAN :
    LET setsJid == eventType = "Connected" /\ JidOf(data) # NULL
        clears == eventType = "Disconnected" \/ eventType = "LoggedOut"
    IN  /\ (~setsJid /\ ~clears) => projOK
        /\ IF dispatcher
             THEN InsertRow(userID, sessionID, eventType, data)
             ELSE UNCHANGED <<rows, nextId, deliveries, posts, bodies, sentVia, enqCalls, enqErrs>>
        /\ jid' = IF setsJid /\ projOK /\ enqErrs' = enqErrs
                    THEN UpdateJID(jid, sessionID, JidOf(data)) ELSE jid
        /\ connected' = IF clears /\ projOK /\ enqErrs' = enqErrs
                          THEN UpdateConnected(connected, sessionID, 0)
                        ELSE connected
        /\ last' = [op |-> "handleEvent", sid |-> sessionID, arg |-> eventType,
                    err |-> IF enqErrs' > enqErrs THEN "insert" ELSE "",
                    val |-> IF projOK THEN 0 ELSE 1]

\* handleEvent: the outbox insert when a dispatcher is set, then the
\* projection update of the Session Store, whose write may fail.  The call
\* returns nothing; "last" keeps whether its insert failed (err) and
\* whether its projection write failed (val = 1).
handleEvent(userID, sessionID, eventType, data) ==
  \E projOK \in BOOLEAN :
    LET setsJid == eventType = "Connected" /\ JidOf(data) # NULL
        clears == eventType = "Disconnected" \/ eventType = "LoggedOut"
    IN  /\ (~setsJid /\ ~clears) => projOK
        /\ IF dispatcher
             THEN InsertRow(userID, sessionID, eventType, data)
             ELSE UNCHANGED <<rows, nextId, deliveries, posts, bodies, sentVia, enqCalls, enqErrs>>
        /\ jid' = IF setsJid /\ projOK THEN UpdateJID(jid, sessionID, JidOf(data)) ELSE jid
        /\ connected' = IF clears /\ projOK THEN UpdateConnected(connected, sessionID, 0)
                        ELSE connected
        /\ last' = [op |-> "handleEvent", sid |-> sessionID, arg |-> eventType,
                    err |-> IF enqErrs' > enqErrs THEN "insert" ELSE "",
                    val |-> IF projOK THEN 0 ELSE 1]

\* Connect that stores the handle before it calls the adapter's connect.
RegisteredAnyway(cl, key, a, connectOK) == Store(cl, key, a)

\* The handle table when the adapter's connect call has returned: the
\* handle is stored if the call succeeded.
Registered(cl, key, a, connectOK) == IF connectOK THEN Store(cl, key, a) ELSE cl

\* A goroutine that drops the error of Connect.
ReturnErrorDropped(pr, err) == Idle

\* What returning from Connect does to the task: a ReconnectAll goroutine
\* goes on to handle the error, any other task is done.
Return(pr, err) ==
  IF pr.kind = "reconnect" /\ err # "" THEN [pr EXCEPT !.pc = "ret"] ELSE Idle

Returned(pr, err, a) ==
  [op |-> "Connect", sid |-> pr.sid, arg |-> pr.kind, err |-> err, val |-> a]

\* A request handler calls Connect for a session it found in the store.
ConnectCall ==
  \E p \in Procs, s \in DOMAIN sessions :
    /\ procs[p].pc = "idle"
    /\ procs' = [procs EXCEPT ![p] = [pc |-> "lock", kind |-> "api", user |-> UserOf(s),
                                      sid |-> s, ad |-> 0]]
    /\ last' = [op |-> "ConnectCall", sid |-> s, arg |-> "api", err |-> "", val |-> 0]
    /\ UNCHANGED <<outboxVars, loopVars>>
    /\ UNCHANGED <<clients, adapters, mu, connected, jid, dispatcher, reconnected>>

\* Connect from s.mu.Lock() to the adapter's connect call.
ConnectBegin ==
  \E p \in Procs, newOK \in BOOLEAN :
    LET pr == procs[p]
        key == clientKey(pr.user, pr.sid)
    IN  /\ pr.pc = "lock"
        /\ TryLock(mu)
        /\ IF alreadyConnected(clients, adapters, key)
             THEN /\ newOK
                  /\ procs' = [procs EXCEPT ![p] = Return(pr, "already connected")]
                  /\ last' = Returned(pr, "already connected", 0)
                  /\ UNCHANGED <<mu, adapters>>
           ELSE IF ~newOK
             THEN /\ procs' = [procs EXCEPT ![p] = Return(pr, "failed to create client")]
                  /\ last' = Returned(pr, "failed to create client", 0)
                  /\ UNCHANGED <<mu, adapters>>
           ELSE /\ Len(adapters) < MaxAdapters
                /\ adapters' = Append(adapters, NewClient(key))
                /\ procs' = [procs EXCEPT ![p] = [pr EXCEPT !.pc = "connecting",
                                                            !.ad = Len(adapters) + 1]]
                /\ mu' = p
                /\ last' = [op |-> "ConnectBegin", sid |-> pr.sid, arg |-> pr.kind,
                            err |-> "", val |-> Len(adapters) + 1]
        /\ UNCHANGED <<outboxVars, loopVars>>
        /\ UNCHANGED <<clients, connected, jid, dispatcher, reconnected>>

\* Connect from the return of the adapter's connect call to the unlock.
ConnectEnd ==
  \E p \in Procs, connectOK \in BOOLEAN, loggedIn \in BOOLEAN :
    LET pr == procs[p]
        key == clientKey(pr.user, pr.sid)
    IN  /\ pr.pc = "connecting"
        /\ IF ~connectOK
             THEN /\ ~loggedIn
                  /\ procs' = [procs EXCEPT ![p] = Return(pr, "failed to connect")]
                  /\ last' = Returned(pr, "failed to connect", pr.ad)
                  /\ clients' = Registered(clients, key, pr.ad, connectOK)
                  /\ UNCHANGED <<adapters, connected, jid>>
             ELSE /\ clients' = Registered(clients, key, pr.ad, connectOK)
                  /\ adapters' = [adapters EXCEPT ![pr.ad] =
                                    [@ EXCEPT !.connected = TRUE, !.loggedIn = loggedIn,
                                              !.live = TRUE]]
                  /\ connected' = UpdateConnected(connected, pr.sid, 1)
                  /\ jid' = IF loggedIn THEN UpdateJID(jid, pr.sid, Jid) ELSE jid
                  /\ procs' = [procs EXCEPT ![p] = Return(pr, "")]
                  /\ last' = Returned(pr, "", pr.ad)
        /\ mu' = 0
        /\ UNCHANGED <<outboxVars, loopVars>>
        /\ UNCHANGED <<dispatcher, reconnected>>

\* ReconnectAll: one goroutine per session stored with connected = 1.
ReconnectAll ==
  LET found == GetConnectedSessions(connected)
      idle == {p \in Procs : procs[p].pc = "idle"}
  IN  /\ ~reconnected
      /\ Cardinality(found) <= Cardinality(idle)
      /\ LET task == CHOOSE f \in [found -> idle] :
                       \A s, t \in found : f[s] = f[t] => s = t
         IN  procs' = [p \in Procs |->
                         IF \E s \in found : task[s] = p
                           THEN [pc |-> "lock", kind |-> "reconnect",
                                 user |-> UserOf(CHOOSE s \in found : task[s] = p),
                                 sid |-> CHOOSE s \in found : task[s] = p, ad |-> 0]
                           ELSE procs[p]]
      /\ reconnected' = TRUE
      /\ last' = [op |-> "ReconnectAll", sid |-> "", arg |-> "", err |-> "",
                  val |-> Cardinality(found)]
      /\ UNCHANGED <<outboxVars, loopVars>>
      /\ UNCHANGED <<clients, adapters, mu, connected, jid, dispatcher>>

\* The goroutine of ReconnectAll after Connect returned an error.
ReconnectFailed ==
  \E p \in Procs :
    /\ procs[p].pc = "ret"
    /\ connected' = UpdateConnected(connected, procs[p].sid, 0)
    /\ procs' = [procs EXCEPT ![p] = Idle]
    /\ last' = [op |-> "ReconnectFailed", sid |-> procs[p].sid, arg |-> "", err |-> "",
                val |-> 0]
    /\ UNCHANGED <<outboxVars, loopVars>>
    /\ UNCHANGED <<clients, adapters, mu, jid, dispatcher, reconnected>>

DoDisconnect ==
  \E s \in DOMAIN sessions :
    LET res == Disconnect(clients, adapters, clientKey(UserOf(s), s))
    IN  /\ TryLock(mu)
        /\ clients' = res.clients
        /\ adapters' = res.adapters
        /\ connected' = IF res.write THEN UpdateConnected(connected, s, 0) ELSE connected
        /\ last' = [op |-> "Disconnect", sid |-> s, arg |-> "", err |-> res.err, val |-> 0]
        /\ UNCHANGED <<outboxVars, loopVars>>
        /\ UNCHANGED <<mu, procs, jid, dispatcher, reconnected>>

DoLogout ==
  \E s \in DOMAIN sessions, logoutOK \in BOOLEAN :
    LET res == Logout(clients, adapters, clientKey(UserOf(s), s), logoutOK)
    IN  /\ TryLock(mu)
        /\ (res.err \in {"no session", "not connected or not logged in"}) => logoutOK
        /\ clients' = res.clients
        /\ adapters' = res.adapters
        /\ connected' = IF res.write THEN UpdateConnected(connected, s, 0) ELSE connected
        /\ jid' = IF res.write THEN UpdateJID(jid, s, "") ELSE jid
        /\ last' = [op |-> "Logout", sid |-> s, arg |-> "", err |-> res.err, val |-> 0]
        /\ UNCHANGED <<outboxVars, loopVars>>
        /\ UNCHANGED <<mu, procs, dispatcher, reconnected>>

DoGetClient ==
  \E s \in SessionIDs :
    /\ TryRLock(mu)
    /\ last' = [op |-> "GetClient", sid |-> s, arg |-> "", err |-> "",
                val |-> GetClient(clients, clientKey(UserOf(s), s))]
    /\ UNCHANGED <<outboxVars, loopVars>>
    /\ UNCHANGED <<clients, adapters, mu, procs, connected, jid, dispatcher, reconnected>>

DoSendText ==
  \E s \in SessionIDs, sendOK \in BOOLEAN :
    LET res == SendText(clients, clientKey(UserOf(s), s), sendOK)
    IN  /\ TryRLock(mu)
        /\ res.calls = 0 => sendOK
        /\ last' = [op |-> "SendText", sid |-> s, arg |-> "", err |-> res.err,
                    val |-> res.calls]
        /\ UNCHANGED <<outboxVars, loopVars>>
        /\ UNCHANGED <<clients, adapters, mu, procs, connected, jid, dispatcher,
                       reconnected>>

\* An adapter that is up calls the callback Connect gave it.
Emit(a, eventType) ==
  /\ handleEvent(adapters[a].key[1], adapters[a].key[2], eventType, DataOf(eventType))
  /\ UNCHANGED <<sessions, dpc, batch, sendIn, sendOut>>
  /\ UNCHANGED <<clients, mu, procs, dispatcher, reconnected>>
  /\ UNCHANGED loopVars

\* events.Connected: the adapter has connected and authenticated, at first
\* or again after a drop.
handleConnected ==
  \E a \in DOMAIN adapters :
    /\ adapters[a].live
    /\ ~(adapters[a].connected /\ adapters[a].loggedIn)
    /\ adapters' = [adapters EXCEPT ![a] = [@ EXCEPT !.connected = TRUE, !.loggedIn = TRUE]]
    /\ Emit(a, "Connected")

\* events.Disconnected: the connection dropped.
handleDisconnected ==
  \E a \in DOMAIN adapters :
    /\ adapters[a].live
    /\ adapters[a].connected
    /\ adapters' = [adapters EXCEPT ![a] = [@ EXCEPT !.connected = FALSE, !.loggedIn = FALSE]]
    /\ Emit(a, "Disconnected")

\* events.LoggedOut: the device was unlinked from the other side.
handleLoggedOut ==
  \E a \in DOMAIN adapters :
    /\ adapters[a].live
    /\ adapters[a].connected
    /\ adapters' = Close(adapters, a)
    /\ Emit(a, "LoggedOut")

\* events.Message
handleMessage ==
  \E a \in DOMAIN adapters :
    /\ adapters[a].live
    /\ adapters[a].connected /\ adapters[a].loggedIn
    /\ UNCHANGED adapters
    /\ Emit(a, "Message")

\* AdminHandler.DeleteUser: the owner's row is deleted and the delete
\* cascades to the owner's sessions; the registry is not called.
DeleteUser ==
  \E u \in Users :
    LET gone == {s \in DOMAIN sessions : UserOf(s) = u}
    IN  /\ gone # {}
        /\ sessions' = [s \in (DOMAIN sessions) \ gone |-> sessions[s]]
        /\ connected' = [s \in (DOMAIN connected) \ gone |-> connected[s]]
        /\ jid' = [s \in (DOMAIN jid) \ gone |-> jid[s]]
        /\ last' = [op |-> "DeleteUser", sid |-> "", arg |-> u, err |-> "", val |-> 0]
        /\ UNCHANGED <<rows, nextId, dpc, batch, deliveries, posts, bodies, sentVia, enqCalls, enqErrs,
                       sendIn, sendOut>>
        /\ UNCHANGED <<clients, adapters, mu, procs, dispatcher, reconnected>>
        /\ UNCHANGED loopVars

NextReg ==
  \/ ConnectCall
  \/ ConnectBegin
  \/ ConnectEnd
  \/ ReconnectAll
  \/ ReconnectFailed
  \/ DoDisconnect
  \/ DoLogout
  \/ DoGetClient
  \/ DoSendText
  \/ DeleteSession
  \/ DeleteUser
  \/ handleConnected
  \/ handleDisconnected
  \/ handleLoggedOut
  \/ handleMessage

SpecReg == InitReg /\ [][NextReg]_vars

\* ------------------------------------------------ ReconnectAll at start
\* ReconnectAll and its goroutines, with nothing else going on.
InitReconnect == StartOver(RegSessionIDs)

NextReconnect ==
  \/ ReconnectAll
  \/ ConnectBegin
  \/ ConnectEnd
  \/ ReconnectFailed

SpecReconnect == InitReconnect /\ [][NextReconnect]_vars

\* ------------------------------------------------------- event router
\* The adapters that Connect brings up call handleEvent; the dispatcher is
\* set at some point, as router.New does after NewSessionService.
SetDispatcher ==
  /\ ~dispatcher
  /\ dispatcher' = TRUE
  /\ last' = [op |-> "SetDispatcher", sid |-> "", arg |-> "", err |-> "", val |-> 0]
  /\ UNCHANGED <<outboxVars, loopVars>>
  /\ UNCHANGED <<clients, adapters, mu, procs, connected, jid, reconnected>>

InitRouter == StartOver(SessionIDs)

NextRouter ==
  \/ SetDispatcher
  \/ ConnectCall
  \/ ConnectBegin
  \/ ConnectEnd
  \/ handleConnected
  \/ handleDisconnected
  \/ handleLoggedOut
  \/ handleMessage

SpecRouter == InitRouter /\ [][NextRouter]_vars

\* ------------------------------------------- dispatcher loops and Stop
\* The loops that Start has started on one Dispatcher work on an outbox that
\* an earlier run of the process left, here one that holds as many rows as
\* a batch, each attempted before; router.StartDispatcher is called when the
\* server starts and Stop is deferred to its exit, so no loop is started
\* once stopCh is closed.
LeftStates ==
  {[status |-> "pending", attempts |-> 0, lastAttempt |-> NULL],
   [status |-> "pending", attempts |-> 2, lastAttempt |-> "NOW"],
   [status |-> "sent", attempts |-> 0, lastAttempt |-> "NOW"],
   [status |-> "failed", attempts |-> 3, lastAttempt |-> "NOW"]}

LeftRow(st, createdAt) ==
  [userId |-> "u1", sessionId |-> "s1", eventType |-> "Message", payload |-> "{}",
   status |-> st.status, attempts |-> st.attempts, lastAttempt |-> st.lastAttempt,
   createdAt |-> createdAt]

\* Rows that have been attempted.
LeftAttempted == {st \in LeftStates : st.lastAttempt # NULL}

\* The outboxes of n rows in the states sts.
LeftTables(n, sts) ==
  {[i \in 1..n |-> LeftRow(st[i], at[i])] :
     st \in [1..n -> sts], at \in [1..n -> {0, 1}]}

InitLoops ==
  /\ rows \in LeftTables(batchSize, LeftAttempted)
  /\ nextId = Len(rows) + 1
  /\ sessions \in [SessionIDs -> [webhook : ReqUrls, events : {<<eventAll>>}]]
  /\ dpc = "stopped"
  /\ batch = <<>>
  /\ deliveries = [i \in DOMAIN rows |-> 0]
  /\ posts = [i \in DOMAIN rows |-> 0]
  /\ bodies = [i \in DOMAIN rows |-> <<>>]
  /\ sentVia = [i \in DOMAIN rows |-> NotSent]
  /\ enqCalls = 0
  /\ enqErrs = 0
  /\ sendIn = NoSendIn
  /\ sendOut = NoSend
  /\ RegistryEmpty
  /\ LoopsOff
  /\ connected = [s \in SessionIDs |-> 0]
  /\ jid = [s \in SessionIDs |-> ""]
  /\ dispatcher = TRUE

\* The events slice that the SELECT returning the ids b fills: each element
\* is a copy of its row as it was when fetched.
Scan(rs, b) == [k \in 1..Len(b) |-> [id |-> b[k], attempts |-> rs[b[k]].attempts]]

\* wg.Wait() that does not wait.
WaitReturnsAtOnce(n) == TRUE

\* wg.Wait() returns when the counter is zero.
WaitReturns(n) == n = 0

LoopFrame ==
  /\ UNCHANGED <<nextId, sessions, dpc, batch, enqCalls, enqErrs, sendIn, sendOut>>
  /\ UNCHANGED regVars

\* Start: wg.Add(1); go d.processLoop().  Nothing keeps a second call from
\* starting a second loop.
StartLoop ==
  \E p \in Loops :
    /\ loops[p].pc = "off"
    /\ \A q \in Loops : q < p => loops[q].pc # "off"
    /\ stopCh = "open"
    /\ loops' = [loops EXCEPT ![p].pc = "select"]
    /\ wg' = wg + 1
    /\ UNCHANGED <<rows, deliveries, posts, bodies, sentVia, stopCh, stopRet>>
    /\ LoopFrame

\* The select of processLoop takes the ticker: processPending fetches.
LoopTick ==
  \E p \in Loops :
    /\ loops[p].pc = "select"
    /\ \E b \in GetPending(rows, batchSize) :
         loops' = [loops EXCEPT ![p].events = Scan(rows, b), ![p].i = 1,
                                ![p].pc = IF b = <<>> THEN "select" ELSE "batch"]
    /\ UNCHANGED <<rows, deliveries, posts, bodies, sentVia, stopCh, stopRet, wg>>
    /\ LoopFrame

\* The next round of the range loop of processPending.
LoopProcess ==
  \E p \in Loops :
    /\ loops[p].pc = "batch"
    /\ processRow(loops[p].events[loops[p].i].id)
    /\ loops' = [loops EXCEPT ![p].i = @ + 1,
                              ![p].pc = IF loops[p].i = Len(loops[p].events)
                                          THEN "select" ELSE "batch"]
    /\ UNCHANGED <<stopCh, stopRet, wg>>
    /\ LoopFrame

\* The select of processLoop takes the closed stopCh: return, wg.Done().
LoopExit ==
  \E p \in Loops :
    /\ loops[p].pc = "select"
    /\ stopCh = "closed"
    /\ loops' = [loops EXCEPT ![p].pc = "exited"]
    /\ wg' = wg - 1
    /\ UNCHANGED <<rows, deliveries, posts, bodies, sentVia, stopCh, stopRet>>
    /\ LoopFrame

\* Stop up to wg.Wait(): close(d.stopCh).
Stop ==
  /\ stopCh = "open"
  /\ stopCh' = "closed"
  /\ loops' = [p \in Loops |->
                 [loops[p] EXCEPT !.stopAt = IF loops[p].pc = "batch"
                                               THEN Len(loops[p].events) - loops[p].i + 1
                                               ELSE 0]]
  /\ UNCHANGED <<rows, deliveries, posts, bodies, sentVia, stopRet, wg>>
  /\ LoopFrame

\* Stop from the return of wg.Wait().
StopReturn ==
  /\ stopCh = "closed"
  /\ ~stopRet
  /\ WaitReturns(wg)
  /\ stopRet' = TRUE
  /\ UNCHANGED <<rows, deliveries, posts, bodies, sentVia, loops, stopCh, wg>>
  /\ LoopFrame

NextLoops ==
  \/ StartLoop
  \/ LoopTick
  \/ LoopProcess
  \/ LoopExit
  \/ Stop
  \/ StopReturn

SpecLoops == InitLoops /\ [][NextLoops]_vars

\* ------------------------------------------------------ one poll cycle
\* One loop polls an outbox that an earlier run of the process left with one
\* row more than a batch holds.
InitPoll ==
  /\ rows \in LeftTables(batchSize + 1, LeftStates)
  /\ nextId = Len(rows) + 1
  /\ sessions \in [SessionIDs -> [webhook : ReqUrls, events : {<<eventAll>>}]]
  /\ dpc = "stopped"
  /\ batch = <<>>
  /\ deliveries = [i \in DOMAIN rows |-> 0]
  /\ posts = [i \in DOMAIN rows |-> 0]
  /\ bodies = [i \in DOMAIN rows |-> <<>>]
  /\ sentVia = [i \in DOMAIN rows |-> NotSent]
  /\ enqCalls = 0
  /\ enqErrs = 0
  /\ sendIn = NoSendIn
  /\ sendOut = NoSend
  /\ RegistryEmpty
  /\ LoopsOff
  /\ connected = [s \in SessionIDs |-> 0]
  /\ jid = [s \in SessionIDs |-> ""]
  /\ dispatcher = TRUE

NextPoll ==
  \/ Start
  \/ processPending
  \/ processEvent

SpecPoll == InitPoll /\ [][NextPoll]_vars

\* ------------------------------------------- registry calls on two keys
\* API calls of Connect, Disconnect, Logout and DeleteSession on the two
\* sessions of the store.
InitKeys == StartOver(RegSessionIDs)

NextKeys ==
  \/ ConnectCall
  \/ ConnectBegin
  \/ ConnectEnd
  \/ DoDisconnect
  \/ DoLogout
  \/ DeleteSession

SpecKeys == InitKeys /\ [][NextKeys]_vars

\* ------------------------------------------ deliveries to any stored URL
\* The store holds one session whose webhook is any string a client has
\* stored (WebhookHandler.Set stores the URL of the request as it is),
\* subscribed to every event.  Events of the session are enqueued and one
\* loop delivers them; the webhook may be deleted meanwhile.
InitPosts ==
  /\ rows = <<>>
  /\ nextId = 1
  /\ sessions \in [SessionIDs -> [webhook : Urls, events : {<<eventAll>>}]]
  /\ dpc = "stopped"
  /\ batch = <<>>
  /\ deliveries = <<>>
  /\ posts = <<>>
  /\ bodies = <<>>
  /\ sentVia = <<>>
  /\ enqCalls = 0
  /\ enqErrs = 0
  /\ sendIn = NoSendIn
  /\ sendOut = NoSend
  /\ RegistryEmpty
  /\ LoopsOff
  /\ connected = [s \in SessionIDs |-> 0]
  /\ jid = [s \in SessionIDs |-> ""]
  /\ dispatcher = TRUE

NextPosts ==
  \/ EnqueueSession
  \/ Start
  \/ processPending
  \/ processEvent
  \/ WebhookDelete

SpecPosts == InitPosts /\ [][NextPosts]_vars

\* ------------------------------------------------ bodies of deliveries
\* Payload columns and creation times of a row the router has inserted.
BodyPayloads == {"{}", "{\"a\":1}", "null"}
BodyTimes == 1..3

\* The outbox holds one fresh row of a session that has a webhook subscribed
\* to every event; loops are started and poll, and the endpoint answers as
\* it likes.
InitBody ==
  /\ \E t \in SessionTypes, p \in BodyPayloads, c \in BodyTimes :
       rows = <<[userId |-> "u1", sessionId |-> "s1", eventType |-> t, payload |-> p,
                 status |-> "pending", attempts |-> 0, lastAttempt |-> NULL,
                 createdAt |-> c]>>
  /\ nextId = Len(rows) + 1
  /\ sessions = [s \in SessionIDs |-> [webhook |-> UrlGood, events |-> <<eventAll>>]]
  /\ dpc = "stopped"
  /\ batch = <<>>
  /\ deliveries = [i \in DOMAIN rows |-> 0]
  /\ posts = [i \in DOMAIN rows |-> 0]
  /\ bodies = [i \in DOMAIN rows |-> <<>>]
  /\ sentVia = [i \in DOMAIN rows |-> NotSent]
  /\ enqCalls = 0
  /\ enqErrs = 0
  /\ sendIn = NoSendIn
  /\ sendOut = NoSend
  /\ RegistryEmpty
  /\ LoopsOff
  /\ connected = [s \in SessionIDs |-> 0]
  /\ jid = [s \in SessionIDs |-> ""]
  /\ dispatcher = TRUE

NextBody ==
  \/ StartLoop
  \/ LoopTick
  \/ LoopProcess

SpecBody == InitBody /\ [][NextBody]_vars

\* --------------------------------------------- outbox and registry together
\* The process has started over a store that holds one session with a
\* webhook subscribed to every event; router.New has set the dispatcher.
\* ReconnectAll is what calls Connect.
InitFrame ==
  /\ rows = <<>>
  /\ nextId = 1
  /\ sessions = [s \in SessionIDs |-> [webhook |-> UrlGood, events |-> <<eventAll>>]]
  /\ dpc = "stopped"
  /\ batch = <<>>
  /\ deliveries = <<>>
  /\ posts = <<>>
  /\ bodies = <<>>
  /\ sentVia = <<>>
  /\ enqCalls = 0
  /\ enqErrs = 0
  /\ sendIn = NoSendIn
  /\ sendOut = NoSend
  /\ RegistryEmpty
  /\ LoopsOff
  /\ connected \in [SessionIDs -> {0, 1}]
  /\ jid \in [SessionIDs -> {"", Jid}]
  /\ dispatcher = TRUE

NextFrame ==
  \/ Enqueue
  \/ Start
  \/ processPending
  \/ processEvent
  \/ WebhookDelete
  \/ ReconnectAll
  \/ ConnectBegin
  \/ ConnectEnd
  \/ ReconnectFailed
  \/ DoDisconnect
  \/ DoLogout
  \/ DeleteSession
  \/ handleDisconnected
  \/ handleMessage

SpecFrame == InitFrame /\ [][NextFrame]_vars

\* =================================================================== claims
Terminal == {"sent", "failed"}

\* The step is processEvent working on row id.
ProcessedStep(id) ==
  /\ dpc = "batch"
  /\ batch # <<>>
  /\ Head(batch) = id
  /\ batch' # batch

Orphan(id) == rows[id].sessionId = "" \/ rows[id].sessionId \notin DOMAIN sessions

\* The names in a stored "events" string.
SubscribedSet(events) == {events[i] : i \in {j \in 1..Len(events) : events[j] # Sep}}

Subscribed(id) ==
  LET set == SubscribedSet(sessions[rows[id].sessionId].events)
  IN  rows[id].eventType \in set \/ "All" \in set

\* C1: with one dispatcher loop, attempts of every row is between 0 and 3 in
\* every reachable state.
AttemptsWithinCap ==
  \A id \in DOMAIN rows : rows[id].attempts >= 0 /\ rows[id].attempts <= AttemptCap

\* C1 witness: a row reached the cap through a delivery failure and through
\* an increment made without a delivery.
AttemptsAtCapMixed ==
  \E id \in DOMAIN rows : rows[id].attempts = AttemptCap /\ deliveries[id] \in {1, 2}

\* C2: a row that is sent or failed is never fetched again and never changes
\* again: status, attempts, lastAttempt and its deliveries stay as they are.
TerminalRowsStay ==
  /\ [](\A i \in 1..Len(batch) : rows[batch[i]].status \notin Terminal)
  /\ [][\A id \in DOMAIN rows :
          rows[id].status \in Terminal =>
            rows'[id] = rows[id] /\ deliveries'[id] = deliveries[id]]_vars

\* C2 witness: a later poll cycle is under way while a sent row that still
\* has attempts below the cap, and a failed row, are in the table.
TerminalRowsDuringBatch ==
  /\ dpc = "batch"
  /\ \E i, j \in DOMAIN rows :
       /\ rows[i].status = "sent" /\ rows[i].attempts < AttemptCap
       /\ rows[j].status = "pending" /\ rows[j].attempts > 0
       /\ batch = <<j>>

OrphanFailsAtOnce ==
  [][\A id \in DOMAIN rows :
       (ProcessedStep(id) /\ Orphan(id)) => rows'[id].status = "failed"]_vars

\* C5: the poll cycle that processes a pending row whose session has no
\* webhook URL leaves it failed, and makes no delivery attempt.
NoUrlFailsAtOnce ==
  [][\A id \in DOMAIN rows :
       (ProcessedStep(id) /\ ~Orphan(id) /\ sessions[rows[id].sessionId].webhook = "") =>
         rows'[id].status = "failed" /\ deliveries'[id] = deliveries[id]]_vars

\* Row id is processed in the step, its session resolves and has a webhook URL.
FilterApplies(id) ==
  ProcessedStep(id) /\ ~Orphan(id) /\ sessions[rows[id].sessionId].webhook # ""

FailedDeliveryStep(id) ==
  /\ deliveries'[id] = deliveries[id] + 1
  /\ rows'[id].status # "sent"

\* C7: a failed delivery adds exactly 1 to attempts; the row stays pending
\* when the new attempts is below 3 and is failed exactly when it reaches 3;
\* three failed deliveries leave the row failed with attempts 3.
RetryStateMachine ==
  /\ [](\A id \in DOMAIN rows :
          (deliveries[id] = AttemptCap /\ rows[id].status # "sent") =>
            rows[id].status = "failed" /\ rows[id].attempts = AttemptCap)
  /\ [][\A id \in DOMAIN rows :
          FailedDeliveryStep(id) =>
            /\ rows'[id].attempts = rows[id].attempts + 1
            /\ rows'[id].attempts < AttemptCap => rows'[id].status = "pending"
            /\ rows'[id].attempts = AttemptCap <=> rows'[id].status = "failed"]_vars

\* C7 witness: a row failed by three failed deliveries.
FailedByThreeDeliveries ==
  \E id \in DOMAIN rows :
    rows[id].status = "failed" /\ rows[id].attempts = AttemptCap /\ deliveries[id] = AttemptCap

\* C8: a row marked sent after a delivery attempt was answered with a 2xx.
SentOnlyOn2xx ==
  \A id \in DOMAIN rows :
    (rows[id].status = "sent" /\ sentVia[id].kind = "response") =>
      sentVia[id].status >= 200 /\ sentVia[id].status <= 299

\* C9 as stated: a Send call makes exactly one POST, and succeeds iff a
\* response came back with a status below 400.
SendExactlyOnePost ==
  sendOut.done =>
    /\ sendOut.posts = 1
    /\ ~sendOut.err <=> (sendIn.outcome.kind = "response" /\ sendIn.outcome.status < 400)

\* C9 amended: a Send call makes at most one POST: none when the payload
\* cannot be marshalled or the request cannot be built, which is an error,
\* and one otherwise; it succeeds iff the POST was made and a response came
\* back with a status below 400.
SendAtMostOnePost ==
  sendOut.done =>
    /\ sendOut.posts \in {0, 1}
    /\ sendOut.posts = 0 <=> (~sendIn.marshalOK \/ sendIn.url = UrlBad)
    /\ sendOut.posts = 0 => sendOut.err
    /\ ~sendOut.err <=>
         (sendOut.posts = 1 /\ sendIn.outcome.kind = "response" /\ sendIn.outcome.status < 400)

\* C9 witness: a call that succeeded on a 3xx answer with its one POST.
SendSucceededOn3xx ==
  /\ sendOut.done /\ ~sendOut.err /\ sendOut.posts = 1
  /\ sendIn.outcome.kind = "response" /\ sendIn.outcome.status = 399

OwnerSubscribedToAll(id) ==
  \E s \in DOMAIN sessions :
    sessions[s].webhook = UrlGood /\ sessions[s].events = <<eventAll>>

\* C11: while the owner's session has a webhook URL and subscribedEvents
\* "All", the poll cycle that processes a row created with
\* Enqueue(owner, eventType, payload) POSTs it to that URL, and the row is
\* sent when the answer is 200.
ScenarioADelivered ==
  [][\A id \in DOMAIN rows :
       (ProcessedStep(id) /\ rows[id].sessionId = "" /\ OwnerSubscribedToAll(id)) =>
         /\ deliveries'[id] = deliveries[id] + 1
         /\ (rows'[id].status = "sent" => sentVia'[id] = Response(200))]_vars

\* The step is task p's Connect passing from the lock to its check.
ConnectChecks(p) == procs[p].pc = "lock" /\ procs'[p].pc # "lock"

\* The handle stored for the session's key reports connected.
HandleConnected(s) ==
  LET key == <<UserOf(s), s>>
  IN  key \in DOMAIN clients /\ adapters[clients[key]].connected

\* C12: a Connect whose key has a stored handle reporting connected returns
\* "already connected" and changes nothing: no adapter is constructed, the
\* registry holds the same handles and the Session Store is not written.
\* Of two Connect calls under way at most one is between its check and its
\* store, so the other makes its check against the handle the first stored.
ConnectAlreadyConnected ==
  /\ [](\A p, q \in Procs :
          (procs[p].pc = "connecting" /\ procs[q].pc = "connecting") => p = q /\ mu = p)
  /\ [][\A p \in Procs :
          (ConnectChecks(p) /\ HandleConnected(procs[p].sid)) =>
            /\ last' = [op |-> "Connect", sid |-> procs[p].sid, arg |-> procs[p].kind,
                        err |-> "already connected", val |-> 0]
            /\ procs'[p].pc # "connecting"
            /\ UNCHANGED <<clients, adapters, connected, jid, sessions, mu>>]_vars

\* C12 witness: a Connect has just returned "already connected" for a key
\* whose one adapter, the only one ever constructed, is stored and connected.
AlreadyConnectedReturned ==
  /\ last.op = "Connect" /\ last.err = "already connected"
  /\ Len(adapters) = 1
  /\ HandleConnected(last.sid)

\* C13: no key ever has two adapters that are up with the callback set; a
\* Connect for a key that has a handle in the registry constructs no
\* adapter, and a stored handle is only ever removed, never replaced by
\* another one.
OneHandlePerKey ==
  /\ [](\A a, b \in DOMAIN adapters :
          (adapters[a].live /\ adapters[b].live /\ adapters[a].key = adapters[b].key)
            => a = b)
  /\ [][/\ \A p \in Procs :
             (ConnectChecks(p) /\ <<procs[p].user, procs[p].sid>> \in DOMAIN clients)
               => adapters' = adapters
        /\ \A key \in DOMAIN clients :
             key \in DOMAIN clients' => clients'[key] = clients[key]]_vars

\* The step is a call of the operation for session s that changed something
\* or returned something else than the call before it.
CallStep(op, s) == last'.op = op /\ last'.sid = s /\ last' # last

HasHandle(s) == <<UserOf(s), s>> \in DOMAIN clients

\* What a successful Disconnect of session s leaves: the adapter torn down,
\* no handle for the key, connected = 0 in the store.
TornDown(s) ==
  /\ ~adapters'[clients[<<UserOf(s), s>>]].live
  /\ ~adapters'[clients[<<UserOf(s), s>>]].connected
  /\ <<UserOf(s), s>> \notin DOMAIN clients'
  /\ connected'[s] = 0

\* C14 as stated: Disconnect fails with NotConnected, leaving registry and
\* Session Store unchanged, if the key has no handle or its handle reports
\* not connected; otherwise it tears down the adapter, removes the handle
\* and sets connected to false.
DisconnectNotConnected ==
  [][\A s \in DOMAIN sessions :
       CallStep("Disconnect", s) =>
         IF ~HandleConnected(s)
           THEN /\ last'.err = "not connected"
                /\ UNCHANGED <<clients, adapters, connected, jid, sessions>>
           ELSE last'.err = "" /\ TornDown(s)]_vars

\* C14 amended: the failure is NoSession when the key has no handle and
\* NotConnected when its handle reports not connected.
DisconnectTwoErrors ==
  [][\A s \in DOMAIN sessions :
       CallStep("Disconnect", s) =>
         IF ~HandleConnected(s)
           THEN /\ last'.err = IF HasHandle(s) THEN "not connected" ELSE "no session"
                /\ UNCHANGED <<clients, adapters, connected, jid, sessions>>
           ELSE last'.err = "" /\ TornDown(s)]_vars

\* C14 witness: after a Disconnect that tore the adapter down, a Disconnect
\* of a handle that dropped its connection has just been refused.
DisconnectRefusedAfterDrop ==
  /\ last.op = "Disconnect" /\ last.err = "not connected"
  /\ HasHandle(last.sid) /\ connected[last.sid] = 0
  /\ \E a \in DOMAIN adapters :
       a # clients[<<UserOf(last.sid), last.sid>>] /\ ~adapters[a].live

\* The handle stored for the session's key reports connected and logged in.
HandleLoggedIn(s) ==
  HandleConnected(s) /\ adapters[clients[<<UserOf(s), s>>]].loggedIn

StoredHandle(s) ==
  IF <<UserOf(s), s>> \in DOMAIN clients THEN clients[<<UserOf(s), s>>] ELSE 0

\* The step is the successful return of task p's Connect for session s.
ConnectSucceeds(p, s) ==
  /\ procs[p].pc = "connecting" /\ procs[p].sid = s
  /\ procs'[p].pc # "connecting"
  /\ last'.err = ""

\* The step is a successful Disconnect or Logout of session s, or its
\* DeleteSession.
HandleRemoved(s) ==
  \/ CallStep("Disconnect", s) /\ last'.err = ""
  \/ CallStep("Logout", s) /\ last'.err = ""
  \/ CallStep("DeleteSession", s)

\* C16: the handle of a key is nil until a Connect succeeds for it, is the
\* adapter of the last successful Connect from then on, and is nil again
\* after a successful Disconnect, Logout or DeleteSession; GetClient returns
\* that handle, and SendText for a key without handle returns "no session"
\* and makes no adapter call.
GetHandleLastConnect ==
  /\ [](adapters = <<>> => clients = <<>>)
  /\ [][\A s \in SessionIDs :
          /\ IF \E p \in Procs : ConnectSucceeds(p, s)
               THEN \A p \in Procs : ConnectSucceeds(p, s) => StoredHandle(s)' = procs[p].ad
             ELSE IF HandleRemoved(s)
               THEN StoredHandle(s)' = 0
             ELSE StoredHandle(s)' = StoredHandle(s)
          /\ CallStep("GetClient", s) => last'.val = StoredHandle(s)
          /\ (CallStep("SendText", s) /\ StoredHandle(s) = 0) =>
               last'.err = "no session" /\ last'.val = 0]_vars

\* C16 witness: GetClient has just returned the adapter of the second
\* successful Connect of the key.
SecondHandleReturned ==
  /\ last.op = "GetClient" /\ last.val = 2
  /\ adapters[1].key = adapters[2].key

\* ReconnectAll has been called and all its goroutines have ended.
ReconnectAllDone == reconnected /\ \A p \in Procs : procs[p] = Idle

\* The adapters whose connect call returned an error.
FailedConnects == {a \in DOMAIN adapters : ~adapters[a].live}

\* C17: when ReconnectAll has ended and exactly one of the adapters it made
\* failed to connect, the session of that adapter has no handle and
\* connected = 0 in the store, and the session of every other adapter has
\* that adapter as its handle and connected = 1.
ReconnectAllPartialFailure ==
  (ReconnectAllDone /\ Cardinality(FailedConnects) = 1) =>
    \A a \in DOMAIN adapters :
      LET s == adapters[a].key[2]
      IN  IF a \in FailedConnects
            THEN ~HasHandle(s) /\ connected[s] = 0
            ELSE StoredHandle(s) = a /\ connected[s] = 1

\* C17 witness: ReconnectAll has ended over two sessions, one adapter failed
\* to connect and the other is stored and connected.
OneOfTwoReconnected ==
  /\ ReconnectAllDone
  /\ Len(adapters) = 2 /\ adapters[1].key # adapters[2].key
  /\ Cardinality(FailedConnects) = 1
  /\ \E a \in DOMAIN adapters :
       adapters[a].connected /\ StoredHandle(adapters[a].key[2]) = a

\* C18: while the adapter connect call of one reconnect attempt has not
\* returned, another attempt that ReconnectAll has started and that has not
\* yet run can go on with its Connect.
ReconnectsIndependent ==
  (\E p, q \in Procs :
     /\ procs[p].pc = "connecting" /\ procs[p].kind = "reconnect"
     /\ procs[q].pc = "lock" /\ procs[q].kind = "reconnect")
    => ENABLED ConnectBegin

\* The step is a handleEvent call for session s with an event of type t.
RouterStep(s, t) == last'.op = "handleEvent" /\ last'.sid = s /\ last'.arg = t

\* The step adds exactly one row, tagged with the event, pending with
\* attempts 0, and leaves every other row as it was.
OneNewRow(s, t) ==
  \E id \in (DOMAIN rows') \ (DOMAIN rows) :
    /\ DOMAIN rows' = (DOMAIN rows) \cup {id}
    /\ rows'[id].userId = UserOf(s) /\ rows'[id].sessionId = s
    /\ rows'[id].eventType = t /\ rows'[id].payload = DataOf(t)
    /\ rows'[id].status = "pending" /\ rows'[id].attempts = 0
    /\ \A i \in DOMAIN rows : rows'[i] = rows[i]

ProjectionIndependent ==
  [][\A s \in SessionIDs, t \in RouterTypes :
       RouterStep(s, t) =>
         /\ (last'.val = 0 /\ t = "Connected") => jid'[s] = Jid /\ connected' = connected
         /\ (last'.val = 0 /\ t \in {"Disconnected", "LoggedOut"}) =>
              connected'[s] = 0 /\ jid' = jid
         /\ last'.val = 1 =>
              /\ connected' = connected /\ jid' = jid
              /\ (dispatcher /\ last'.err # "insert") => OneNewRow(s, t)]_vars

\* C20 witness: with a dispatcher set, the insert for a Disconnected event
\* has just failed and the store holds connected = 0 for the session.
ProjectedAfterInsertError ==
  /\ dispatcher
  /\ last.op = "handleEvent" /\ last.arg = "Disconnected"
  /\ last.err = "insert" /\ last.val = 0
  /\ connected[last.sid] = 0

\* C21: after handleEvent has handled a Disconnected or LoggedOut event the
\* stored connected flag of the session is 0, and after it has handled a
\* Connected event the stored connected flag is 1 and the stored jid is the
\* one the event carried (the store write itself succeeding).
RouterKeepsConnectedFlag ==
  [][\A s \in SessionIDs, t \in RouterTypes :
       (RouterStep(s, t) /\ last'.val = 0) =>
         /\ t \in {"Disconnected", "LoggedOut"} => connected'[s] = 0
         /\ t = "Connected" => connected'[s] = 1 /\ jid'[s] = Jid]_vars

\* Loop p has processed every event of the slice it fetched last.
BatchDone(p) == loops[p].i = Len(loops[p].events) + 1

\* C22: a loop that is working through a batch does nothing but process the
\* next event of it, whether or not stopCh is closed, and exits only with
\* every event of its batch processed; Stop has returned only if every loop
\* that was started has exited; and once Stop has returned no Sender.Send
\* call is made and no row changes.
StopCooperative ==
  /\ [][\A p \in Loops :
          /\ (loops[p].pc = "batch" /\ loops'[p].pc # "batch") =>
               loops'[p].pc = "select" /\ loops[p].i = Len(loops[p].events)
          /\ (loops[p].pc = "batch" /\ loops'[p].i # loops[p].i) =>
               loops'[p].i = loops[p].i + 1 /\ loops'[p].events = loops[p].events
          /\ (loops[p].pc # "exited" /\ loops'[p].pc = "exited") => BatchDone(p)]_vars
  /\ [](stopRet => \A p \in Loops : loops[p].pc \in {"off", "exited"})
  /\ [][stopRet => rows' = rows /\ deliveries' = deliveries]_vars

\* C22 witness: Stop has returned, and a loop that had a whole batch still
\* to process when stopCh was closed has exited with the batch done.
StoppedAfterBatch ==
  /\ stopRet
  /\ \E p \in Loops :
       /\ loops[p].pc = "exited" /\ loops[p].stopAt = batchSize /\ BatchDone(p)
       /\ \A k \in 1..Len(loops[p].events) :
            rows[loops[p].events[k].id].attempts > loops[p].events[k].attempts
              \/ rows[loops[p].events[k].id].status = "sent"

\* The id of the event that loop p processes next.
NextOf(p) == loops[p].events[loops[p].i].id

\* C23: nothing reserves a fetched row for the loop that fetched it.  A
\* pending row that one loop has fetched and not yet processed is still
\* returned to another loop that polls (all pending rows fitting in a batch),
\* and a loop that processes a row of a session with a webhook URL makes the
\* HTTP call and marks the row sent or failed even if another loop has
\* updated the row since it was fetched.
NoClaimOnRows ==
  /\ [](\A p, q \in Loops :
          (p # q /\ loops[p].pc = "batch" /\ loops[q].pc = "select"
             /\ NextOf(p) \in Pending(rows) /\ Cardinality(Pending(rows)) <= batchSize)
            => \E b \in GetPending(rows, batchSize) : \E k \in 1..Len(b) : b[k] = NextOf(p))
  /\ [][\A p \in Loops :
          (loops[p].pc = "batch" /\ loops'[p].i = loops[p].i + 1
             /\ sessions[rows[NextOf(p)].sessionId].webhook = UrlGood
             /\ rows[NextOf(p)].attempts # loops[p].events[loops[p].i].attempts)
            => /\ deliveries'[NextOf(p)] = deliveries[NextOf(p)] + 1
               /\ rows' \in {MarkSent(rows, NextOf(p)), MarkFailed(rows, NextOf(p))}]_vars

\* C23 witness: two loops fetched the same row at the same count of attempts
\* and both have processed it: two HTTP calls were made for it and its
\* attempts went up by two.
RowProcessedTwice ==
  \E p, q \in Loops, id \in DOMAIN rows :
    /\ p # q
    /\ \E k \in 1..(loops[p].i - 1), l \in 1..(loops[q].i - 1) :
         /\ loops[p].events[k].id = id /\ loops[q].events[l].id = id
         /\ loops[p].events[k].attempts = loops[q].events[l].attempts
         /\ rows[id].attempts = loops[p].events[k].attempts + 2
    /\ deliveries[id] = 2

\* The ids of the sequence b.
Ids(b) == {b[k] : k \in 1..Len(b)}

\* b holds no id twice and is in ascending createdAt order.
Ascending(b) ==
  \A k, l \in 1..Len(b) : k < l => b[k] # b[l] /\ rows[b[k]].createdAt <= rows[b[l]].createdAt

\* C24: the batch of a poll cycle has at most batchSize rows; when fetched
\* they are all pending with attempts below 3 and none of the pending rows
\* left out was created before one of them; the batch is worked through in
\* ascending createdAt order, holds no row twice, and a processing step
\* changes the first row of what is left of the batch and no other row.
BatchOldestFirst ==
  /\ [](Len(batch) <= batchSize /\ Ascending(batch))
  /\ [][(dpc = "idle" /\ dpc' = "batch") =>
          /\ Ids(batch') \subseteq Pending(rows)
          /\ Len(batch') = Min(batchSize, Cardinality(Pending(rows)))
          /\ \A c \in Pending(rows) \ Ids(batch') : \A i \in Ids(batch') :
               rows[i].createdAt <= rows[c].createdAt]_vars
  /\ [][dpc = "batch" =>
          /\ batch' = Tail(batch)
          /\ \A i \in DOMAIN rows : i # Head(batch) => rows'[i] = rows[i]
          /\ rows'[Head(batch)] # rows[Head(batch)]]_vars

\* C24 witness: three rows were pending when the batch was fetched; the
\* oldest of the batch has been processed, the next one is due, and the
\* row created last has been left for a later cycle.
YoungestLeftOut ==
  /\ dpc = "batch" /\ Len(batch) = batchSize - 1
  /\ \E done \in DOMAIN rows, c \in Pending(rows) \ Ids(batch) :
       /\ done \notin Ids(batch) /\ done # c
       /\ rows[done].lastAttempt # NULL /\ rows[c].lastAttempt = NULL
       /\ rows[done].createdAt < rows[c].createdAt
       /\ rows[Head(batch)].createdAt < rows[c].createdAt
       /\ rows[Head(batch)].status = "pending"

\* Row i differs between the two states of the step in nothing but its
\* status, attempts and lastAttempt.
SameEvent(i) ==
  /\ rows'[i].userId = rows[i].userId /\ rows'[i].sessionId = rows[i].sessionId
  /\ rows'[i].eventType = rows[i].eventType /\ rows'[i].payload = rows[i].payload
  /\ rows'[i].createdAt = rows[i].createdAt

\* C25: a step that adds a row is a Create call made by Enqueue or by
\* handleEvent, adds one row and leaves the rows there were as they were; a
\* step that changes a row is the dispatcher's processing of that row, and
\* changes nothing of it but status, attempts and lastAttempt; no row is
\* removed.  So Connect, Disconnect, Logout, ReconnectAll, handleEvent,
\* Enqueue and a webhook-configuration change leave every existing row
\* unchanged.
RowsFrame ==
  [][/\ DOMAIN rows \subseteq DOMAIN rows'
     /\ DOMAIN rows' # DOMAIN rows =>
          /\ enqCalls' = enqCalls + 1
          /\ Cardinality((DOMAIN rows') \ (DOMAIN rows)) = 1
          /\ \A i \in DOMAIN rows : rows'[i] = rows[i]
     /\ \A i \in DOMAIN rows :
          rows'[i] # rows[i] =>
            /\ dpc = "batch" /\ Head(batch) = i /\ batch' = Tail(batch)
            /\ SameEvent(i)
            /\ last' = last /\ sessions' = sessions /\ enqCalls' = enqCalls
     /\ (last' # last \/ sessions' # sessions \/ enqCalls' # enqCalls) =>
          \A i \in DOMAIN rows : rows'[i] = rows[i]]_vars

\* C25 witness: a row that Enqueue created has been attempted by the
\* dispatcher, a row that handleEvent created is there too, and the call
\* made last is a Disconnect that took the handle out of the registry.
RowsKeptThroughDisconnect ==
  /\ last.op = "Disconnect" /\ last.err = ""
  /\ \E i, j \in DOMAIN rows :
       /\ rows[i].sessionId = "" /\ rows[i].attempts = 1
       /\ rows[j].sessionId \in SessionIDs /\ rows[j].eventType = "Message"

\* The calls that take s.mu, as the step that returns from them records them.
LockedOps == {"ConnectBegin", "Connect", "Disconnect", "Logout", "DeleteSession",
              "GetClient", "SendText"}

\* C26: a task is between the start of Connect's adapter connect call and
\* its return exactly when it holds s.mu, so at most one task is; while
\* s.mu is held the only registry call that takes a step is the holder's
\* Connect returning, and the handle table changes in that step only: no
\* second Connect gets past the lock, no Disconnect, Logout or DeleteSession
\* runs, and no reader (GetClient, GetWhatsmeowClient) runs between the
\* start of a Connect and the storing of its handle.
RegistrySerialised ==
  /\ [](\A p \in Procs : procs[p].pc = "connecting" <=> mu = p)
  /\ [][mu # 0 =>
          /\ (last' # last /\ last'.op \in LockedOps) =>
               /\ last'.op = "Connect"
               /\ procs'[mu].pc # "connecting"
               /\ mu' = 0
          /\ clients' # clients => procs'[mu].pc # "connecting" /\ mu' = 0
          /\ mu' # 0 => mu' = mu]_vars

\* C26 witness: one task is inside the adapter's connect call while a handle
\* is in the registry and another task that called Connect waits for s.mu.
ConnectWaitsForLock ==
  \E p, q \in Procs :
    /\ procs[p].pc = "connecting" /\ mu = p
    /\ procs[q].pc = "lock"
    /\ clients # <<>>

\* C27: the write that a goroutine of ReconnectAll makes after its Connect
\* returned leaves connected = 1 stored for a session whose handle in the
\* registry is connected.
ReconnectKeepsConnectedFlag ==
  [][\A s \in SessionIDs :
       (CallStep("ReconnectFailed", s) /\ HandleConnected(s) /\ s \in DOMAIN connected')
         => connected'[s] = 1]_vars

\* C28: when every goroutine that ReconnectAll started has ended, and nothing
\* but them has run, a session has connected = 1 stored exactly if it has a
\* handle in the registry; the sessions that were not listed have neither.
ReconnectAllConsistent ==
  ReconnectAllDone =>
    \A s \in RegSessionIDs :
      /\ connected[s] = 1 => HasHandle(s) /\ HandleConnected(s)
      /\ ~HasHandle(s) => connected[s] = 0

\* C28 witness: ReconnectAll listed both sessions and has ended with both
\* connected and stored.
BothReconnected ==
  /\ ReconnectAllDone
  /\ last.op = "Connect" /\ last.arg = "reconnect" /\ last.err = ""
  /\ \A s \in RegSessionIDs : HasHandle(s) /\ connected[s] = 1

\* The errors of Connect that come from the adapter.
ConnectFailures == {"failed to create client", "failed to connect"}

\* C29: the step in which Connect returns "failed to create client" or
\* "failed to connect" leaves the handle table, the stored connected flags
\* and the stored jids as they were, and the task gets the error; so does
\* the step in which Connect goes into the adapter's connect call, and the
\* handle table does not change while that call is in progress.
FailedConnectChangesNothing ==
  /\ [][(last' # last /\ last'.op = "Connect" /\ last'.err \in ConnectFailures) =>
          /\ clients' = clients /\ connected' = connected /\ jid' = jid
          /\ \E p \in Procs :
               /\ procs[p].pc \in {"lock", "connecting"}
               /\ procs'[p] = IF procs[p].kind = "reconnect"
                                THEN [procs[p] EXCEPT !.pc = "ret"] ELSE Idle]_vars
  /\ [][(last' # last /\ last'.op = "ConnectBegin") =>
          clients' = clients /\ connected' = connected /\ jid' = jid]_vars
  /\ [][(mu # 0 /\ mu' # 0) => clients' = clients]_vars

\* C29 witness: a Connect for a session whose handle had dropped has just
\* failed in the adapter's connect call, and the handle stored before is
\* still the session's handle.
OldHandleKeptOnFailure ==
  /\ last.op = "Connect" /\ last.err = "failed to connect"
  /\ HasHandle(last.sid)
  /\ clients[<<UserOf(last.sid), last.sid>>] # last.val
  /\ ~adapters[last.val].live

\* C30: every key of the handle table is the key of a session that is in the
\* Session Store.
HandlesHaveSessions ==
  \A key \in DOMAIN clients : key[2] \in DOMAIN sessions /\ UserOf(key[2]) = key[1]

\* Row i belongs to a session that is no longer in the store.
OfDeletedSession(i) == rows[i].sessionId # "" /\ rows[i].sessionId \notin DOMAIN sessions

FailedByDeliveriesAlone(id) ==
  /\ rows[id].status = "failed"
  /\ deliveries[id] = rows[id].attempts

\* No row comes twice in one batch.
OncePerBatch == \A i, j \in 1..Len(batch) : i < j => batch[i] # batch[j]

\* C32 as the specification states it: with one loop the dispatcher makes at
\* most 3 POSTs for a row, at most one per poll cycle and none once the row
\* is terminal, and a row that has failed through delivery errors alone has
\* received exactly 3 POSTs.
ThreePostsWhenFailed ==
  /\ [](\A id \in DOMAIN rows : posts[id] <= AttemptCap)
  /\ []OncePerBatch
  /\ [][\A id \in DOMAIN rows :
          /\ posts'[id] <= posts[id] + 1
          /\ posts'[id] # posts[id] => ProcessedStep(id)
          /\ rows[id].status \in Terminal => posts'[id] = posts[id]]_vars
  /\ [](\A id \in DOMAIN rows : FailedByDeliveriesAlone(id) => posts[id] = AttemptCap)

\* C32 (amended): with one loop the dispatcher makes at most 3 delivery
\* attempts (Sender.Send calls) for a row, at most one per poll cycle and
\* none once the row is terminal; each attempt makes one POST when a request
\* can be built from the stored webhook URL and none otherwise, so a row
\* gets at most 3 POSTs; a row that has failed through delivery errors
\* alone went through exactly 3 delivery attempts.
ThreeAttemptsWhenFailed ==
  /\ [](\A id \in DOMAIN rows : posts[id] <= deliveries[id] /\ deliveries[id] <= AttemptCap)
  /\ []OncePerBatch
  /\ [][\A id \in DOMAIN rows :
          /\ deliveries'[id] <= deliveries[id] + 1
          /\ deliveries'[id] # deliveries[id] =>
               /\ ProcessedStep(id)
               /\ posts'[id] = posts[id] +
                    (IF UrlParses(sessions[rows[id].sessionId].webhook) THEN 1 ELSE 0)
          /\ deliveries'[id] = deliveries[id] => posts'[id] = posts[id]
          /\ rows[id].status \in Terminal => deliveries'[id] = deliveries[id]]_vars
  /\ [](\A id \in DOMAIN rows : FailedByDeliveriesAlone(id) => deliveries[id] = AttemptCap)

\* Reached: a row has failed through three delivery errors, each of them
\* the answer to a POST.
FailedAfterThreePosts ==
  \E id \in DOMAIN rows : FailedByDeliveriesAlone(id) /\ posts[id] = AttemptCap

\* ------------------------------------------------------------------ C33
\* C33: marking a row sent leaves attempts as it was; attempts goes up by one
\* exactly in the poll cycles that process the row without marking it sent,
\* and in no other step; so a sent row has attempts in 0..2 and a failed row
\* has attempts exactly 3.
AttemptsCountUnsentCycles ==
  /\ [][\A id \in DOMAIN rows :
          /\ (ProcessedStep(id) /\ rows'[id].status = "sent") =>
               rows'[id].attempts = rows[id].attempts
          /\ (ProcessedStep(id) /\ rows'[id].status # "sent") =>
               rows'[id].attempts = rows[id].attempts + 1
          /\ ~ProcessedStep(id) => rows'[id].attempts = rows[id].attempts]_vars
  /\ [](\A id \in DOMAIN rows :
          /\ rows[id].status = "sent" => rows[id].attempts \in 0..(AttemptCap - 1)
          /\ rows[id].status = "failed" => rows[id].attempts = AttemptCap)

\* Reached: a row marked sent in its third cycle beside a row that failed in
\* its third.
SentAtTwoBesideFailed ==
  \E i, j \in DOMAIN rows :
    /\ rows[i].status = "sent" /\ rows[i].attempts = AttemptCap - 1
    /\ rows[j].status = "failed" /\ rows[j].attempts = AttemptCap

\* ------------------------------------------------------------------ C34
\* A row that a failed delivery has left pending.
LeftPendingByDelivery(id) == rows[id].status = "pending" /\ deliveries[id] >= 1

\* No Sender.Send call and no POST is made for the row in the step.
NoFurtherCall(id) == deliveries'[id] = deliveries[id] /\ posts'[id] = posts[id]

\* C34: each poll cycle decides by the configuration the session has in the
\* store when the row is processed.  A row left pending by a failed delivery
\* whose session has since been unsubscribed from its event type is marked
\* sent at its next cycle, and one whose session has since lost its webhook
\* URL or been deleted has attempts incremented at its next cycle, in both
\* cases without a further HTTP call; while the session still has a URL and
\* the subscription, the cycle makes one more call.
EligibilityRechecked ==
  [][\A id \in DOMAIN rows :
       (ProcessedStep(id) /\ LeftPendingByDelivery(id)) =>
         IF Orphan(id) \/ sessions[rows[id].sessionId].webhook = ""
           THEN /\ rows'[id].attempts = rows[id].attempts + 1
                /\ rows'[id].status \in {"pending", "failed"}
                /\ NoFurtherCall(id)
         ELSE IF ~Subscribed(id)
           THEN /\ rows'[id].status = "sent"
                /\ rows'[id].attempts = rows[id].attempts
                /\ NoFurtherCall(id)
         ELSE deliveries'[id] = deliveries[id] + 1]_vars

\* Reached: after failed deliveries of two rows, one was marked sent by the
\* filter when its event type had been unsubscribed, and the other is next
\* in the batch when its session has been deleted.
UnsubscribedThenDeleted ==
  \E i, j \in DOMAIN rows :
    /\ sentVia[i] = ViaFilter /\ deliveries[i] >= 1
    /\ dpc = "batch" /\ batch # <<>> /\ Head(batch) = j
    /\ LeftPendingByDelivery(j)
    /\ rows[j].sessionId # "" /\ rows[j].sessionId \notin DOMAIN sessions

\* ------------------------------------------------------------------ C35
\* C35: every payload handed to the sender for a row has the row's event
\* type as event, the value of the row's stored payload as data and the
\* second of the row's creation as timestamp, and the row keeps these three
\* columns for life; so every delivery attempt of a row, a retry or the
\* duplicate of a second loop, carries the body of the first.
SameBodyEveryAttempt ==
  /\ [](\A id \in DOMAIN rows :
          /\ Len(bodies[id]) = deliveries[id]
          /\ \A k \in 1..Len(bodies[id]) :
               /\ bodies[id][k].event = rows[id].eventType
               /\ bodies[id][k].data = Unmarshal(rows[id].payload)
               /\ bodies[id][k].timestamp = Unix(rows[id].createdAt)
               /\ bodies[id][k] = bodies[id][1])
  /\ [][\A id \in DOMAIN rows :
          /\ rows'[id].eventType = rows[id].eventType
          /\ rows'[id].payload = rows[id].payload
          /\ rows'[id].createdAt = rows[id].createdAt]_vars

\* Reached: a row created in second 1 with a non-empty object as payload has
\* been delivered more often than one loop retries, after attempts counted
\* in between.
RetriedAndDuplicated ==
  \E id \in DOMAIN rows :
    /\ deliveries[id] > AttemptCap
    /\ rows[id].attempts >= AttemptCap
    /\ Unix(rows[id].createdAt) = 1
    /\ Unmarshal(rows[id].payload).keys # {}

\* ------------------------------------------------------------------ C36
\* The step leaves session t alone: the handle of its key and the adapter
\* behind it, its row in the store, its connected flag and its identity.
KeyUntouched(t) ==
  LET key == clientKey(UserOf(t), t)
  IN  /\ key \in DOMAIN clients <=> key \in DOMAIN clients'
      /\ key \in DOMAIN clients =>
           /\ clients'[key] = clients[key]
           /\ adapters'[clients[key]] = adapters[clients[key]]
      /\ t \in DOMAIN sessions <=> t \in DOMAIN sessions'
      /\ t \in DOMAIN connected =>
           /\ t \in DOMAIN connected' /\ connected'[t] = connected[t]
           /\ t \in DOMAIN jid' /\ jid'[t] = jid[t]

\* C36: a step of Connect, Disconnect, Logout or DeleteSession on one key,
\* returning an error or not, leaves the handle of every other key and the
\* connected flag and protocol identity of every other session as they are.
RegistryOpsLocal ==
  [][\A t \in RegSessionIDs : last'.sid # t => KeyUntouched(t)]_vars

\* The operation op has just returned for s2, with an error or without,
\* beside a connected, identified s1.
OpsBesideConnected(op, failed) ==
  /\ last.op = op /\ last.sid = "s2" /\ (last.err # "") = failed
  /\ HasHandle("s1") /\ adapters[clients[clientKey(UserOf("s1"), "s1")]].connected
  /\ connected["s1"] = 1 /\ jid["s1"] = Jid

\* Reached: Logout of s2 has succeeded and removed its handle while s1 keeps
\* its handle, its flag and its identity.
LogoutBesideConnected ==
  /\ OpsBesideConnected("Logout", FALSE)
  /\ ~HasHandle("s2")

====
